---- MODULE Spec2Model ----
(***************************************************************************)
(* Multi-car racing simulation (Apandey1354/racing_simulation).            *)
(*                                                                         *)
(* The three run loops of the repository are modelled side by side:        *)
(*   "fixed"   RacingSimulation.run         (simulation.py)                *)
(*   "event"   DiscreteEventSimulation.run  (discrete_event.py)            *)
(*   "markov"  MarkovChainSimulation.run    (markov_chain.py)              *)
(*                                                                         *)
(* Quantisation.  The program computes in floating point on a planar       *)
(* closed curve.  The model works on the integer grid of the arc-length    *)
(* axis: a position is an arc-length coordinate on a ring of total_length  *)
(* metres, the heading is the track tangent (yaw = 0, cos = 1, sin = 0),   *)
(* the unit of time is 0.1 s, velocities are metres per unit of time,      *)
(* lanes are stored in tenths of a lane and real-valued intermediate       *)
(* results are carried in fixed point (FP = 1/1000) and floored.           *)
(***************************************************************************)
EXTENDS Integers, Sequences, FiniteSets, TLC

VARIABLES
    mode,                \* which run() is executing
    elimination_enabled, \* config['simulation']['elimination']['enabled']
    dt,                  \* config['simulation']['dt']            (units of 0.1 s)
    collision_radius,    \* config['simulation']['collision_radius'] (metres)
    track_num_lanes,     \* config['track']['num_lanes'], Track.num_lanes
    target_laps,         \* config['simulation']['laps'], self.target_laps
    cars,                \* self.cars: the roster, a list of Car objects
    pc,                  \* position inside run()
    step,                \* loop variable of "for step in range(max_steps)"
    timestamp,           \* self.timestamp / self.current_time
    event_queue,         \* self.event_queue (binary heap, event mode)
    last_log_time,       \* local of DiscreteEventSimulation.run
    new_collisions,      \* result of the last check_collisions call
    all_collisions,      \* collision_detector.collisions / all_collisions / self.collisions
    elim_idx,            \* position of "for collision in new_collisions" in _check_eliminations
    rolled,              \* the roll the last elimination block drew, if it drew one
    near_misses,         \* self.near_misses
    eliminated_cars,     \* self.eliminated_cars (list of car ids)
    snapshot,            \* the state of every car when the current update cycle began
    sensed,              \* what each car's compute_control read of the other cars
    passes               \* collision and near-miss passes run since the last update of the cars

vars == <<mode, elimination_enabled, dt, collision_radius, track_num_lanes, target_laps, cars, pc, step, timestamp,
          event_queue, last_log_time, new_collisions, all_collisions, elim_idx, rolled,
          near_misses, eliminated_cars, snapshot, sensed, passes>>

----------------------------------------------------------------------------
(* Bounds of the model *)

\* config['simulation']['time_limit'] in units of 0.1 s
TimeLimit == 28
\* How many whole turns of the track an arc-length is shifted by
MaxTurns == 2

----------------------------------------------------------------------------
(* Program constants and configuration values *)

total_length == 200          \* Track.total_length (metres)
num_lanes == 5               \* lanes 0..4: randint(0, 5), np.clip(lane, 0, 4)
LaneScale == 10              \* lane coordinates are stored in tenths
lane_change_rate == 1        \* 0.1 lane per tick
lane_change_cooldown == 20   \* 2.0 s
sensing_radius == 50
lead_lookahead == 30         \* _decide_lane_change: leader within 30 m
clear_lookahead == 20        \* _check_lane_clear: +-20 m
near_miss_range == 10
ttc_threshold == 20          \* near_miss_ttc_threshold, 2.0 s
check_interval == 1          \* 0.1 s
log_interval == 5            \* 0.5 s
collision_horizon == 50     \* "if collision_time < 5.0", 5.0 s
markov_interval == 20        \* step % 20
elimination_chance == 6      \* roll < 6 eliminates
a_max == 3
b_max == 3
reaction_time == 1
base_min_gap == 2
wheelbase == 3
lookahead_distance == 10
FP == 1000                   \* fixed-point scale of real-valued intermediates

Strategies == {"aggressive", "balanced", "cautious"}
States == {"aggressive", "balanced", "cautious", "eliminated"}

\* config['controller']['desired_speed'][strategy_type], metres per 0.1 s
desired_speed_of(strategy) == 10

----------------------------------------------------------------------------
(* Arithmetic helpers *)

Abs(n) == IF n < 0 THEN -n ELSE n
Min(a, b) == IF a < b THEN a ELSE b
Max(a, b) == IF a > b THEN a ELSE b
\* np.clip
Clip(v, lo, hi) == IF v < lo THEN lo ELSE IF v > hi THEN hi ELSE v
Sign(n) == IF n > 0 THEN 1 ELSE IF n < 0 THEN -1 ELSE 0
\* floor of n/d for d > 0
FloorDiv(n, d) == n \div d

\* Signed displacement from point a to point b of the closed track: the
\* planar difference (other.x - car.x) seen on the arc-length axis.
Delta(a, b) ==
    LET d == (b - a) % total_length
    IN  IF 2 * d > total_length THEN d - total_length ELSE d

\* sqrt(dx**2 + dy**2) on the arc-length axis
Distance(a, b) == Abs(Delta(a, b))

\* integer square root
Isqrt(n) == CHOOSE r \in 0..n : r * r <= n /\ (r + 1) * (r + 1) > n

----------------------------------------------------------------------------
(* Track (track.py) *)

\* Track.project_car_position: arc-length of the centreline sample nearest
\* to the car; the samples of the model lie on every metre of the ring.
project_car_position(x) == x % total_length

\* Variant of get_target_point that does not wrap around the track length
get_target_point_unwrapped(s, lookahead, lane) == s + lookahead

\* Track.get_target_point: ((s mod length) + lookahead) mod length; the lane
\* only offsets the point sideways, which the arc-length axis does not show.
get_target_point(s, lookahead, lane) ==
    ((s % total_length) + lookahead) % total_length

----------------------------------------------------------------------------
(* Car (car.py) *)

NoReason == "None"

\* CombinedController.__init__: the controller keeps the configuration's own
\* gap and the desired speed of the strategy it was built for.
CombinedController(strategy_type) ==
    [strategy     |-> strategy_type,
     min_gap      |-> [num |-> base_min_gap, den |-> 1],
     desired_speed |-> desired_speed_of(strategy_type)]

\* Strategy multipliers of Car.__init__, in tenths
InitSpeedMultiplier(strategy_type) ==
    IF strategy_type = "aggressive" THEN 12
    ELSE IF strategy_type = "balanced" THEN 10
    ELSE 9

InitMinGap(strategy_type) ==
    IF strategy_type = "aggressive" THEN [num |-> base_min_gap * 8, den |-> 10]
    ELSE IF strategy_type = "balanced" THEN [num |-> base_min_gap, den |-> 1]
    ELSE [num |-> base_min_gap * 12, den |-> 10]

\* Car.__init__ followed by the two assignments of _initialize_cars
\* (desired_speed *= speed_multiplier with the global multiplier 1.0, and the
\* controller).  lane is np.random.randint(0, 5), chosen by the caller.
Car(id, x0, yaw0, strategy_type, lane0) ==
    [car_id |-> id,
     strategy_type |-> strategy_type,
     x |-> x0,
     yaw |-> yaw0,
     velocity |-> 0,
     acceleration |-> 0,
     lane |-> lane0 * LaneScale,
     target_lane |-> lane0 * LaneScale,
     lap_count |-> 0,
     s_position |-> 0,
     lane_change_timer |-> 0,
     desired_speed |-> desired_speed_of(strategy_type),
     speed_multiplier |-> InitSpeedMultiplier(strategy_type),
     min_gap |-> InitMinGap(strategy_type),
     controller |-> CombinedController(strategy_type),
     trajectory |-> <<>>,
     collision_flag |-> FALSE,
     collision_count |-> 0,
     total_collision_severity |-> 0,
     eliminated |-> FALSE,
     elimination_time |-> <<>>,
     elimination_reason |-> NoReason,
     lap_times |-> <<>>,
     last_lap_start_s |-> 0,
     last_lap_start_time |-> 0]

\* Car.get_max_speed, in tenths of a metre per tick
get_max_speed10(car) == car.desired_speed * car.speed_multiplier

\* Variant of update_state that does not advance the lap timer
update_state_untimed(car, d) ==
    LET old_s == car.s_position
        s     == project_car_position(car.x)
        lap   == 10 * old_s > 9 * total_length /\ 10 * s < total_length
        c1    == [car EXCEPT !.s_position = s]
        c2    == IF lap
                 THEN [c1 EXCEPT
                         !.lap_count = @ + 1,
                         !.lap_times = IF car.last_lap_start_time > 0
                                       THEN Append(@, car.last_lap_start_time)
                                       ELSE @,
                         !.last_lap_start_s = s,
                         !.last_lap_start_time = 0]
                 ELSE c1
    IN  [c2 EXCEPT !.trajectory =
            Append(@, [x |-> c2.x, yaw |-> c2.yaw, velocity |-> c2.velocity,
                       acceleration |-> c2.acceleration,
                       s_position |-> c2.s_position, lap |-> c2.lap_count])]

\* Car.update_state
update_state(car, d) ==
    LET old_s == car.s_position
        s     == project_car_position(car.x)
        lap   == 10 * old_s > 9 * total_length /\ 10 * s < total_length
        c1    == [car EXCEPT !.s_position = s]
        c2    == IF lap
                 THEN [c1 EXCEPT
                         !.lap_count = @ + 1,
                         !.lap_times = IF car.last_lap_start_time > 0
                                       THEN Append(@, car.last_lap_start_time)
                                       ELSE @,
                         !.last_lap_start_s = s,
                         !.last_lap_start_time = 0]
                 ELSE c1
        c3    == [c2 EXCEPT !.last_lap_start_time = @ + d]
    IN  [c3 EXCEPT !.trajectory =
            Append(@, [x |-> c3.x, yaw |-> c3.yaw, velocity |-> c3.velocity,
                       acceleration |-> c3.acceleration,
                       s_position |-> c3.s_position, lap |-> c3.lap_count])]

\* Car.reset_collision_flag
reset_collision_flag(car) == [car EXCEPT !.collision_flag = FALSE]

----------------------------------------------------------------------------
(* Physics (physics.py) *)

\* Variant of update_car_dynamics without the np.clip of the velocity
update_car_dynamics_unclipped(car, acceleration, steering_angle, d) ==
    LET v   == car.velocity + acceleration * d
        x1  == (car.x + v * (IF car.yaw = 0 THEN 1 ELSE -1) * d) % total_length
    IN  [car EXCEPT !.velocity = v, !.x = x1, !.acceleration = acceleration]

\* update_car_dynamics.  The steering angle on the arc-length axis is 0, so
\* tan(steering_angle) = 0 and the heading term vanishes.
update_car_dynamics(car, acceleration, steering_angle, d) ==
    LET v10 == Clip(10 * (car.velocity + acceleration * d), 0, get_max_speed10(car))
        v   == FloorDiv(v10, 10)
        x1  == (car.x + v * (IF car.yaw = 0 THEN 1 ELSE -1) * d) % total_length
        y1  == IF v > 0
               THEN car.yaw + FloorDiv(v * steering_angle * d, wheelbase)
               ELSE car.yaw
    IN  [car EXCEPT !.velocity = v, !.x = x1, !.yaw = y1,
                    !.acceleration = acceleration]

----------------------------------------------------------------------------
(* Controller (controller.py) *)

\* IDMController.compute_acceleration.  leader = 0 stands for "no leading
\* car"; distance and relative_velocity are those of the leader.
compute_acceleration(car, leader, distance, relative_velocity) ==
    LET v       == car.velocity
        v0_10   == car.desired_speed * car.speed_multiplier
        ratio   == FloorDiv(FP * 10 * v, v0_10)
        ratio2  == FloorDiv(ratio * ratio, FP)
        ratio4  == FloorDiv(ratio2 * ratio2, FP)
        free_term == FP - ratio4
        s0      == car.controller.min_gap
        dv      == -relative_velocity
        s_star  == FloorDiv(FP * s0.num, s0.den) + FP * v * reaction_time
                   + FloorDiv(FP * v * dv, 2 * Isqrt(a_max * b_max))
        d10     == Max(10 * distance, 1)
        \* the quotient s_star / max(distance, 0.1), saturated where the
        \* result is clamped to -b_max anyway
        q       == Min(FloorDiv(Abs(s_star) * 10, d10), 40 * FP)
        interaction_term == FloorDiv(q * q, FP)
        raw     == IF leader # 0
                   THEN a_max * (free_term - interaction_term)
                   ELSE a_max * free_term
    IN  Clip(FloorDiv(raw, FP), -b_max, a_max)

\* PurePursuitController.compute_steering_angle: the target point lies on the
\* arc-length axis, so alpha is 0 or pi, sin(alpha) = 0 and delta = 0.
compute_steering_angle(car, target_x) == 0

\* CombinedController._check_lane_clear (target_lane in tenths)
check_lane_clear(cs, i, target_lane, all_cars) ==
    IF target_lane < 0 \/ target_lane >= num_lanes * LaneScale
    THEN FALSE
    ELSE \A j \in all_cars :
            \/ cs[j].car_id = cs[i].car_id
            \/ Abs(cs[j].lane - target_lane) > 5
            \/ ~(Abs(Delta(cs[i].x, cs[j].x)) < clear_lookahead)

\* The nearest car of a set, the first of the list among equally near ones
Nearest(cs, i, S) ==
    CHOOSE j \in S :
        \A k \in S :
            \/ Distance(cs[i].x, cs[j].x) < Distance(cs[i].x, cs[k].x)
            \/ (Distance(cs[i].x, cs[j].x) = Distance(cs[i].x, cs[k].x) /\ j <= k)

\* The candidate lanes of _decide_lane_change, in the order they are tried
LaneCandidates(lane) ==
    (IF lane < 4 * LaneScale THEN <<lane + 1 * LaneScale>> ELSE <<>>)
    \o (IF lane < 3 * LaneScale THEN <<lane + 2 * LaneScale>> ELSE <<>>)
    \o (IF lane > 0 THEN <<lane - 1 * LaneScale>> ELSE <<>>)
    \o (IF lane > 1 * LaneScale THEN <<lane - 2 * LaneScale>> ELSE <<>>)

\* Variant of _decide_lane_change without the test of the cooldown timer
decide_lane_change_eager(cs, i, all_cars) ==
    LET car == cs[i]
        ahead == {j \in all_cars :
                    /\ cs[j].car_id # car.car_id
                    /\ ~(Abs(cs[j].lane - car.lane) > 5)
                    /\ Delta(car.x, cs[j].x) > 0
                    /\ Delta(car.x, cs[j].x) < lead_lookahead}
        cand == LaneCandidates(car.lane)
        clear == {n \in 1..Len(cand) : check_lane_clear(cs, i, cand[n], all_cars)}
    IN  IF ahead = {} THEN -1
        ELSE IF ~(10 * cs[Nearest(cs, i, ahead)].velocity < 9 * car.velocity) THEN -1
        ELSE IF clear = {} THEN -1
        ELSE cand[CHOOSE n \in clear : \A m \in clear : n <= m]

\* CombinedController._decide_lane_change; -1 stands for None
decide_lane_change(cs, i, all_cars) ==
    LET car == cs[i]
        ahead == {j \in all_cars :
                    /\ cs[j].car_id # car.car_id
                    /\ ~(Abs(cs[j].lane - car.lane) > 5)
                    /\ Delta(car.x, cs[j].x) > 0
                    /\ Delta(car.x, cs[j].x) < lead_lookahead}
        cand == LaneCandidates(car.lane)
        clear == {n \in 1..Len(cand) : check_lane_clear(cs, i, cand[n], all_cars)}
    IN  IF car.lane_change_timer > 0 THEN -1
        ELSE IF ahead = {} THEN -1
        ELSE IF ~(10 * cs[Nearest(cs, i, ahead)].velocity < 9 * car.velocity) THEN -1
        ELSE IF clear = {} THEN -1
        ELSE cand[CHOOSE n \in clear : \A m \in clear : n <= m]

\* What compute_control reads of another car
View(c) == [x |-> c.x, velocity |-> c.velocity, lane |-> c.lane]

\* Variant of the lane part of compute_control that puts the car on its
\* target lane at once
lane_control_snap(car0, target_lane) ==
    LET car1 == IF target_lane # -1
                THEN [car0 EXCEPT !.target_lane = target_lane,
                                  !.lane_change_timer = lane_change_cooldown]
                ELSE car0
    IN  [car1 EXCEPT
           !.lane = Clip(car1.target_lane, 0, (num_lanes - 1) * LaneScale),
           !.target_lane = Clip(@, 0, (num_lanes - 1) * LaneScale)]

\* compute_control, the lane part: the decision target_lane (-1: None) is
\* taken over and the car moves towards its target lane
lane_control(car0, target_lane) ==
    LET car1 == IF target_lane # -1
                THEN [car0 EXCEPT !.target_lane = target_lane,
                                  !.lane_change_timer = lane_change_cooldown]
                ELSE car0
        lane_diff == car1.target_lane - car1.lane
        lane1 == IF Abs(lane_diff) > 1
                 THEN IF lane_diff > 0
                      THEN Min(car1.lane + lane_change_rate, car1.target_lane)
                      ELSE Max(car1.lane - lane_change_rate, car1.target_lane)
                 ELSE car1.target_lane
    IN  [car1 EXCEPT
           !.lane = Clip(lane1, 0, (num_lanes - 1) * LaneScale),
           !.target_lane = Clip(@, 0, (num_lanes - 1) * LaneScale)]

\* compute_control, Car.sense_neighbors and the search for the leading car of
\* car (car i of cs); 0 stands for None
leading_car(cs, i, car, all_cars) ==
    LET ahead == {j \in all_cars :
                    /\ cs[j].car_id # car.car_id
                    /\ Distance(car.x, cs[j].x) <= sensing_radius
                    /\ ~(Abs(cs[j].lane - car.lane) > 5)
                    /\ Delta(car.x, cs[j].x) > 0}
    IN  IF ahead = {} THEN 0 ELSE Nearest(cs, i, ahead)

\* compute_control, the longitudinal part: the acceleration behind leader
longitudinal_control(cs, car, leader) ==
    compute_acceleration(car, leader,
        IF leader = 0 THEN 0 ELSE Distance(car.x, cs[leader].x),
        IF leader = 0 THEN 0
        ELSE (cs[leader].velocity - car.velocity) * Sign(Delta(car.x, cs[leader].x)))

\* compute_control, the lateral part: the steering angle towards the target
\* point
lateral_control(car) ==
    compute_steering_angle(car,
        get_target_point(car.s_position, lookahead_distance,
                         FloorDiv(car.lane + 5, LaneScale)))

\* CombinedController.compute_control for car i of the roster cs, given the
\* list all_cars (indices into cs: the list holds the Car objects themselves).
\* The result has the car with its lane fields updated, the command, and the
\* view of the other cars the computation read.
compute_control(cs, i, all_cars) ==
    LET car == lane_control(cs[i], decide_lane_change(cs, i, all_cars))
    IN  [car |-> car,
         acceleration |-> longitudinal_control(cs, car, leading_car(cs, i, car, all_cars)),
         steering_angle |-> lateral_control(car),
         read |-> [j \in all_cars \ {i} |-> View(cs[j])]]

----------------------------------------------------------------------------
(* Roster helpers *)

\* next((c for c in self.cars if c.car_id == id), None); 0 stands for None
FindCar(cs, id) ==
    IF \E i \in DOMAIN cs : cs[i].car_id = id
    THEN CHOOSE i \in DOMAIN cs :
            cs[i].car_id = id /\ \A k \in DOMAIN cs : cs[k].car_id = id => i <= k
    ELSE 0

\* [c for c in self.cars if not c.eliminated], as indices into the roster
ActiveCars(cs) == {i \in DOMAIN cs : ~cs[i].eliminated}

----------------------------------------------------------------------------
(* Collision detection (collision.py) *)

\* Velocity vector components with the heading on the arc-length axis
Vx(c) == c.velocity * (IF c.yaw = 0 THEN 1 ELSE -1)

\* Variant of RelativeSpeed that adds the two velocity vectors
RelativeSpeed_sum(c1, c2) ==
    LET rel_vx == Vx(c2) + Vx(c1)
        rel_vy == 0
    IN  Isqrt(rel_vx * rel_vx + rel_vy * rel_vy)

\* Magnitude of the relative velocity vector of two cars
RelativeSpeed(c1, c2) ==
    LET rel_vx == Vx(c2) - Vx(c1)
        rel_vy == 0
    IN  Isqrt(rel_vx * rel_vx + rel_vy * rel_vy)

\* Variant of CollidePair without the test of the two eliminated flags
CollidePair_any(st, i, j, ts) ==
    LET car1 == st.cars[i]
        car2 == st.cars[j]
        pair == IF car1.car_id <= car2.car_id
                THEN <<car1.car_id, car2.car_id>>
                ELSE <<car2.car_id, car1.car_id>>
        severity == RelativeSpeed(car1, car2)
        ev == [timestamp |-> ts,
               car_id1 |-> car1.car_id,
               car_id2 |-> car2.car_id,
               x |-> FloorDiv(car1.x + car2.x, 2),
               lap |-> Min(car1.lap_count, car2.lap_count),
               severity |-> severity]
    IN  IF pair \in st.pairs THEN st
        ELSE IF ~(Distance(car1.x, car2.x) < collision_radius) THEN st
        ELSE [cars |-> [st.cars EXCEPT
                          ![i] = [@ EXCEPT !.collision_count = @ + 1,
                                           !.total_collision_severity = @ + severity,
                                           !.collision_flag = TRUE],
                          ![j] = [@ EXCEPT !.collision_count = @ + 1,
                                           !.total_collision_severity = @ + severity,
                                           !.collision_flag = TRUE]],
              new |-> Append(st.new, ev),
              pairs |-> st.pairs \cup {pair}]

\* Variant of the inner loop of check_collisions that accounts a collision
\* to the first car of the pair only
CollidePair_first(st, i, j, ts) ==
    LET car1 == st.cars[i]
        car2 == st.cars[j]
        pair == IF car1.car_id <= car2.car_id
                THEN <<car1.car_id, car2.car_id>>
                ELSE <<car2.car_id, car1.car_id>>
        severity == RelativeSpeed(car1, car2)
        ev == [timestamp |-> ts,
               car_id1 |-> car1.car_id,
               car_id2 |-> car2.car_id,
               x |-> FloorDiv(car1.x + car2.x, 2),
               lap |-> Min(car1.lap_count, car2.lap_count),
               severity |-> severity]
    IN  IF car1.eliminated \/ car2.eliminated THEN st
        ELSE IF pair \in st.pairs THEN st
        ELSE IF ~(Distance(car1.x, car2.x) < collision_radius) THEN st
        ELSE [cars |-> [st.cars EXCEPT
                          ![i] = [@ EXCEPT !.collision_count = @ + 1,
                                           !.total_collision_severity = @ + severity,
                                           !.collision_flag = TRUE],
                          ![j] = [@ EXCEPT !.collision_flag = TRUE]],
              new |-> Append(st.new, ev),
              pairs |-> st.pairs \cup {pair}]

\* The body of the inner loop of check_collisions for the cars at list
\* positions i < j; st = [cars, new, pairs] is the state of the call.
CollidePair(st, i, j, ts) ==
    LET car1 == st.cars[i]
        car2 == st.cars[j]
        pair == IF car1.car_id <= car2.car_id
                THEN <<car1.car_id, car2.car_id>>
                ELSE <<car2.car_id, car1.car_id>>
        severity == RelativeSpeed(car1, car2)
        ev == [timestamp |-> ts,
               car_id1 |-> car1.car_id,
               car_id2 |-> car2.car_id,
               x |-> FloorDiv(car1.x + car2.x, 2),
               lap |-> Min(car1.lap_count, car2.lap_count),
               severity |-> severity]
    IN  IF car1.eliminated \/ car2.eliminated THEN st
        ELSE IF pair \in st.pairs THEN st
        ELSE IF ~(Distance(car1.x, car2.x) < collision_radius) THEN st
        ELSE [cars |-> [st.cars EXCEPT
                          ![i] = [@ EXCEPT !.collision_count = @ + 1,
                                           !.total_collision_severity = @ + severity,
                                           !.collision_flag = TRUE],
                          ![j] = [@ EXCEPT !.collision_count = @ + 1,
                                           !.total_collision_severity = @ + severity,
                                           !.collision_flag = TRUE]],
              new |-> Append(st.new, ev),
              pairs |-> st.pairs \cup {pair}]

\* The two nested loops of check_collisions, from the pair (i, j) on
RECURSIVE CollideFrom(_, _, _, _)
CollideFrom(st, i, j, ts) ==
    IF i > Len(st.cars) THEN st
    ELSE IF j > Len(st.cars) THEN CollideFrom(st, i + 1, i + 2, ts)
    ELSE CollideFrom(CollidePair(st, i, j, ts), i, j + 1, ts)

\* Variant of check_collisions that scans the pairs a second time with an
\* emptied set of seen pairs
check_collisions_rescan(cs, ts) ==
    LET st1 == CollideFrom([cars |-> cs, new |-> <<>>, pairs |-> {}], 1, 2, ts)
        st2 == CollideFrom([cars |-> st1.cars, new |-> st1.new, pairs |-> {}], 1, 2, ts)
    IN  [cars |-> st2.cars, new |-> st2.new]

\* CollisionDetector.check_collisions: the roster after the call and the
\* list the call returns
check_collisions(cs, ts) ==
    LET st == CollideFrom([cars |-> cs, new |-> <<>>, pairs |-> {}], 1, 2, ts)
    IN  [cars |-> st.cars, new |-> st.new]

\* The test compute_near_misses applies to one pair of the list it is given
IsNearMiss(c1, c2, threshold) ==
    LET dx == Delta(c1.x, c2.x)
        distance == Abs(dx)
        rel_vx == Vx(c2) - Vx(c1)
        rel_v == Sign(dx) * rel_vx
    IN  /\ distance < near_miss_range
        /\ distance > 0
        /\ rel_v < 0
        /\ distance < threshold * Abs(rel_v)

\* CollisionDetector.compute_near_misses over the cars of the set S
compute_near_misses(cs, S, threshold) ==
    Cardinality({p \in S \X S : p[1] < p[2] /\ IsNearMiss(cs[p[1]], cs[p[2]], threshold)})

----------------------------------------------------------------------------
(* Elimination (simulation.py) *)

\* Variant of EliminationRoll that compares with "<=" instead of "<"
EliminationRoll_inclusive(st, i, roll, ts) ==
    IF i = 0 \/ st.cars[i].eliminated THEN st
    ELSE IF roll <= elimination_chance
    THEN [cars |-> [st.cars EXCEPT ![i] =
                      [@ EXCEPT !.eliminated = TRUE,
                                !.elimination_time = <<ts>>,
                                !.elimination_reason = "collision",
                                !.velocity = 0]],
          eliminated_cars |-> Append(st.eliminated_cars, st.cars[i].car_id),
          rolled |-> Append(st.rolled, [car_id |-> st.cars[i].car_id, roll |-> roll])]
    ELSE [st EXCEPT !.rolled = Append(@, [car_id |-> st.cars[i].car_id, roll |-> roll])]

\* Variant of EliminationRoll that rolls for eliminated cars too and assigns
\* the outcome of the roll to the flag
EliminationRoll_reassign(st, i, roll, ts) ==
    IF i = 0 THEN st
    ELSE [cars |-> [st.cars EXCEPT ![i] =
                      [@ EXCEPT !.eliminated = roll < elimination_chance,
                                !.velocity = IF roll < elimination_chance THEN 0 ELSE @]],
          eliminated_cars |-> IF roll < elimination_chance
                              THEN Append(st.eliminated_cars, st.cars[i].car_id)
                              ELSE st.eliminated_cars,
          rolled |-> Append(st.rolled, [car_id |-> st.cars[i].car_id, roll |-> roll])]

\* One of the two "Check carN for elimination" blocks of _check_eliminations:
\* st = [cars, eliminated_cars, rolled], i the car (0: not found), roll the
\* number np.random.randint(1, 11) returns if it is called.
EliminationRoll(st, i, roll, ts) ==
    IF i = 0 \/ st.cars[i].eliminated THEN st
    ELSE IF roll < elimination_chance
    THEN [cars |-> [st.cars EXCEPT ![i] =
                      [@ EXCEPT !.eliminated = TRUE,
                                !.elimination_time = <<ts>>,
                                !.elimination_reason = "collision",
                                !.velocity = 0]],
          eliminated_cars |-> Append(st.eliminated_cars, st.cars[i].car_id),
          rolled |-> Append(st.rolled, [car_id |-> st.cars[i].car_id, roll |-> roll])]
    ELSE [st EXCEPT !.rolled = Append(@, [car_id |-> st.cars[i].car_id, roll |-> roll])]

\* A "Check carN for elimination" block applied to the car with the given id
check_elimination_of(cs, elim, id, roll, ts) ==
    EliminationRoll([cars |-> cs, eliminated_cars |-> elim, rolled |-> <<>>],
                    FindCar(cs, id), roll, ts)

----------------------------------------------------------------------------
(* Strategy transitions (markov_chain.py) *)

\* base_transition_matrix, in thousandths
base_transition_matrix(state) ==
    IF state = "aggressive"
    THEN [aggressive |-> 700, balanced |-> 200, cautious |-> 50, eliminated |-> 50]
    ELSE IF state = "balanced"
    THEN [aggressive |-> 100, balanced |-> 800, cautious |-> 80, eliminated |-> 20]
    ELSE IF state = "cautious"
    THEN [aggressive |-> 50, balanced |-> 150, cautious |-> 750, eliminated |-> 50]
    ELSE [aggressive |-> 0, balanced |-> 0, cautious |-> 0, eliminated |-> 1000]

RECURSIVE SumVelocity(_)
SumVelocity(trajectory) ==
    IF trajectory = <<>> THEN 0
    ELSE trajectory[1].velocity + SumVelocity(Tail(trajectory))

\* _update_transition_probabilities before the normalisation: the adjusted
\* weights of the four next states, in thousandths
transition_weights(car) ==
    LET base == base_transition_matrix(car.strategy_type)
        laps == Max(car.lap_count, 1)
        n    == Len(car.trajectory)
        high_collision == 2 * car.collision_count > laps
        low_collision  == 10 * car.collision_count < laps
        fast == n > 0 /\ 10 * SumVelocity(car.trajectory) > 9 * car.desired_speed * n
    IN  IF high_collision
        THEN [base EXCEPT !.eliminated = Min(300, 2 * @),
                          !.cautious = Min(400, 2 * @),
                          !.aggressive = Max(0, FloorDiv(@, 2))]
        ELSE IF low_collision /\ fast
        THEN [base EXCEPT !.aggressive = Min(300, FloorDiv(3 * @, 2)),
                          !.eliminated = Max(0, FloorDiv(@, 2))]
        ELSE base

\* The states np.random.choice can return: those of positive probability
NextStates(car) == {s \in States : transition_weights(car)[s] > 0}

\* MarkovChainSimulation._transition_state with next_state the sampled state
transition_state(car, next_state) ==
    IF car.eliminated
    THEN [car EXCEPT !.strategy_type = "eliminated"]
    ELSE IF next_state # car.strategy_type /\ next_state # "eliminated"
    THEN [car EXCEPT
            !.strategy_type = next_state,
            !.speed_multiplier = IF next_state = "aggressive" THEN 12
                                 ELSE IF next_state = "balanced" THEN 10
                                 ELSE 9,
            !.min_gap = IF next_state = "aggressive"
                        THEN [num |-> @.num * 8, den |-> @.den * 10]
                        ELSE IF next_state = "cautious"
                        THEN [num |-> @.num * 12, den |-> @.den * 10]
                        ELSE @,
            !.controller = CombinedController(next_state)]
    ELSE IF next_state = "eliminated"
    THEN [car EXCEPT !.eliminated = TRUE,
                     !.elimination_time = <<>>,
                     !.elimination_reason = "markov"]
    ELSE car

----------------------------------------------------------------------------
(* The per-car body of the update loops *)

\* "if car.lane_change_timer > 0: car.lane_change_timer -= dt"
TickTimer(car, d) ==
    IF car.lane_change_timer > 0
    THEN [car EXCEPT !.lane_change_timer = @ - d]
    ELSE car

\* The state of an update loop is st = [cars, sensed]: the roster, and what
\* the compute_control call of each car updated so far read of the others.

\* The timer statement applied to car k
Tick(st, k, d) == [st EXCEPT !.cars[k] = TickTimer(@, d)]

\* update_car_dynamics and update_state for car k under the command ctl
ApplyControl(st, k, ctl, d) ==
    [cars |-> [st.cars EXCEPT ![k] =
                  update_state(update_car_dynamics(ctl.car, ctl.acceleration,
                                                   ctl.steering_angle, d), d)],
     sensed |-> [st.sensed EXCEPT ![k] = ctl.read]]

\* compute_control, update_car_dynamics and update_state for car k, with
\* all_cars the list handed to compute_control
ControlAndMove(st, k, all_cars, d) ==
    ApplyControl(st, k, compute_control(st.cars, k, all_cars), d)

\* RacingSimulation.run, "for car in self.cars" from car k on: the list of
\* active cars is rebuilt for every car and holds the cars themselves.
RECURSIVE UpdateCarsFixed(_, _, _)
UpdateCarsFixed(st, k, d) ==
    IF k > Len(st.cars) THEN st
    ELSE IF st.cars[k].eliminated THEN UpdateCarsFixed(st, k + 1, d)
    ELSE UpdateCarsFixed(ControlAndMove(Tick(st, k, d), k, ActiveCars(st.cars), d),
                         k + 1, d)

\* DiscreteEventSimulation._update_all_cars from car k on: active_cars is
\* built once, before the loop, and holds the cars themselves.
RECURSIVE UpdateCarsEvent(_, _, _, _)
UpdateCarsEvent(st, k, active_cars, d) ==
    IF k > Len(st.cars) THEN st
    ELSE IF st.cars[k].eliminated THEN UpdateCarsEvent(st, k + 1, active_cars, d)
    ELSE UpdateCarsEvent(ControlAndMove(Tick(st, k, d), k, active_cars, d),
                         k + 1, active_cars, d)

\* run_with_markov, the body of "for car in simulation.cars" for car k after
\* its transition, if the step has one
MoveUnlessEliminated(st, k, d) ==
    IF st.cars[k].eliminated THEN st
    ELSE ControlAndMove(st, k, ActiveCars(st.cars), d)

\* run_with_markov, "for car in simulation.cars" from car k on; choice[k] is
\* the state sampled for car k when the step is a transition step.
RECURSIVE UpdateCarsMarkov(_, _, _, _, _)
UpdateCarsMarkov(st, k, d, transition, choice) ==
    IF k > Len(st.cars) THEN st
    ELSE IF st.cars[k].eliminated
    THEN UpdateCarsMarkov(st, k + 1, d, transition, choice)
    ELSE UpdateCarsMarkov(
            MoveUnlessEliminated(
                IF transition
                THEN [Tick(st, k, d) EXCEPT !.cars[k] = transition_state(@, choice[k])]
                ELSE Tick(st, k, d),
                k, d),
            k + 1, d, transition, choice)

\* _log_telemetry: every car's row is written and its flag reset
log_telemetry(cs) == [i \in DOMAIN cs |-> reset_collision_flag(cs[i])]

----------------------------------------------------------------------------
(* The event queue (discrete_event.py, heapq) *)

\* Event.__lt__
EventLt(e1, e2) == e1.time < e2.time

\* heapq._siftdown, positions counted from 0
RECURSIVE SiftDown(_, _, _, _)
SiftDown(heap, startpos, pos, newitem) ==
    LET parentpos == (pos - 1) \div 2
    IN  IF pos > startpos /\ EventLt(newitem, heap[parentpos + 1])
        THEN SiftDown([heap EXCEPT ![pos + 1] = heap[parentpos + 1]],
                      startpos, parentpos, newitem)
        ELSE [heap EXCEPT ![pos + 1] = newitem]

\* heapq._siftup, positions counted from 0
RECURSIVE SiftUp(_, _, _)
SiftUp(heap, pos, newitem) ==
    LET endpos == Len(heap)
        left == 2 * pos + 1
        right == left + 1
        childpos == IF right < endpos /\ ~EventLt(heap[left + 1], heap[right + 1])
                    THEN right ELSE left
    IN  IF left < endpos
        THEN SiftUp([heap EXCEPT ![pos + 1] = heap[childpos + 1]], childpos, newitem)
        ELSE SiftDown([heap EXCEPT ![pos + 1] = newitem], 0, pos, newitem)

\* DiscreteEventSimulation.schedule_event: heapq.heappush
schedule_event(heap, time, event_type) ==
    LET event == [time |-> time, event_type |-> event_type]
    IN  SiftDown(Append(heap, event), 0, Len(heap), event)

\* heapq.heappop: the event returned and the heap left
heappop(heap) ==
    LET lastelt == heap[Len(heap)]
        rest == SubSeq(heap, 1, Len(heap) - 1)
    IN  IF rest = <<>>
        THEN [event |-> lastelt, heap |-> rest]
        ELSE [event |-> rest[1], heap |-> SiftUp(rest, 0, lastelt)]

\* "for i in range(n): self.schedule_event(i * interval, event_type, ...)"
RECURSIVE ScheduleEvery(_, _, _, _, _)
ScheduleEvery(heap, i, n, interval, event_type) ==
    IF Len(heap) >= 0 /\ i >= n THEN heap
    ELSE ScheduleEvery(schedule_event(heap, i * interval, event_type),
                       i + 1, n, interval, event_type)

\* The queue DiscreteEventSimulation.run builds before its loop
InitialSchedule(d) ==
    ScheduleEvery(
        ScheduleEvery(<<>>, 0, TimeLimit \div d, d, "update"),
        0, TimeLimit \div check_interval, check_interval, "collision_check")

----------------------------------------------------------------------------
(* Initial states *)

\* start_s = np.random.uniform(0, total_length), on the grid
StartPositions == {0, 1, 195}
\* np.random.randint(0, 5)
StartLanes == {0, 1}
\* config['simulation']['dt'] in units of 0.1 s
TimeSteps == {1, 2, 4}

\* The rosters _initialize_cars builds for num_cars = 2: every pair of start
\* positions and strategies; the first car's lane is 0
TwoCarRosters ==
    {<<Car(0, p[1], 0, s[1], 0), Car(1, p[2], 0, s[2], l)>> :
        p \in StartPositions \X StartPositions,
        s \in Strategies \X Strategies,
        l \in StartLanes}

\* Rosters for num_cars = 3, one car of each strategy, two or three of the
\* cars within the collision radius of each other
ThreeCarRosters ==
    {<<Car(0, 0, 0, "aggressive", 0), Car(1, 0, 0, "balanced", l),
       Car(2, x, 0, "cautious", 2)>> : x \in StartPositions, l \in StartLanes}

\* The rosters the run with strategy transitions starts from: the first
\* transition step resamples every strategy
MarkovRosters ==
    {r \in TwoCarRosters :
        r[1].strategy_type = "aggressive" /\ r[2].strategy_type # "aggressive"}

\* The rosters _initialize_cars builds for num_cars = 1: a car alone on
\* the track
OneCarRosters ==
    {<<Car(0, p, 0, s, 0)>> : p \in StartPositions, s \in Strategies}

\* A roster _initialize_cars builds for num_cars = 3: the cars in one lane,
\* the first behind the two others and within 30 m of them
QueueRosters ==
    {<<Car(0, 0, 0, "aggressive", 0), Car(1, 29, 0, "cautious", 0),
       Car(2, 20, 0, "aggressive", 0)>>}

Rosters(m) ==
    IF m = "markov" THEN MarkovRosters
    ELSE OneCarRosters \cup TwoCarRosters \cup ThreeCarRosters \cup QueueRosters

NoReads(cs) == [i \in DOMAIN cs |-> <<>>]

\* config['simulation']['collision_radius']: the constructor takes the value
\* as it is, a negative one too
CollisionRadii == {2, -1}

NoPasses == [collision |-> 0, near_miss |-> 0]

\* track_config.get('num_lanes', 5): the default, and a track of two lanes
TrackLaneCounts == {num_lanes, 2}

\* config['simulation']['laps']: a race of one lap, and one of two laps,
\* which no car completes within the time limit
Laps == {1, 2}

Init ==
    /\ mode \in {"fixed", "event", "markov"}
    /\ elimination_enabled \in BOOLEAN
    /\ dt \in (IF mode = "event" THEN TimeSteps ELSE {1})
    /\ collision_radius \in (IF mode = "fixed"
                             THEN CollisionRadii
                             ELSE {r \in CollisionRadii : r >= 0})
    /\ track_num_lanes \in (IF mode = "fixed" THEN TrackLaneCounts ELSE {num_lanes})
    /\ target_laps \in (IF mode = "fixed" THEN Laps ELSE {1})
    /\ cars \in Rosters(mode)
    /\ pc = "start"
    /\ step = 0
    /\ timestamp = 0
    /\ event_queue = <<>>
    /\ last_log_time = 0
    /\ new_collisions = <<>>
    /\ all_collisions = <<>>
    /\ elim_idx = 1
    /\ rolled = <<>>
    /\ near_misses = 0
    /\ eliminated_cars = <<>>
    /\ snapshot = [i \in DOMAIN cars |-> View(cars[i])]
    /\ sensed = NoReads(cars)
    /\ passes = NoPasses

----------------------------------------------------------------------------
(* Actions *)

config_vars == <<mode, elimination_enabled, dt, collision_radius, track_num_lanes,
                 target_laps>>

\* Variant of max_steps with one cycle more than the time limit allows
max_steps_more == TimeLimit \div dt + 1

max_steps == TimeLimit \div dt

\* Variant of the all-finished test that asks for more than the target laps
AllFinished_beyond(cs) == \A i \in ActiveCars(cs) : cs[i].lap_count > target_laps

\* "all(car.lap_count >= self.target_laps for car in active_cars)"
AllFinished(cs) == \A i \in ActiveCars(cs) : cs[i].lap_count >= target_laps

\* The part of run() before the loop: the event run fills its queue
RunStart ==
    /\ pc = "start"
    /\ pc' = "loop"
    /\ event_queue' = IF mode = "event" THEN InitialSchedule(dt) ELSE <<>>
    /\ UNCHANGED <<config_vars, cars, step, timestamp, last_log_time, new_collisions,
                   all_collisions, elim_idx, rolled, near_misses, eliminated_cars,
                   snapshot, sensed,
                   passes>>

\* The for loop of RacingSimulation.run and run_with_markov ends: the range
\* is exhausted
StepsExhausted ==
    /\ pc = "loop"
    /\ mode \in {"fixed", "markov"}
    /\ step >= max_steps
    /\ pc' = "done"
    /\ UNCHANGED <<config_vars, cars, step, timestamp, event_queue, last_log_time,
                   new_collisions, all_collisions, elim_idx, rolled, near_misses,
                   eliminated_cars, snapshot, sensed,
                   passes>>

\* ... or one of its two break statements is taken
LoopBreak ==
    /\ pc = "loop"
    /\ mode \in {"fixed", "markov"}
    /\ step < max_steps
    /\ ActiveCars(cars) = {} \/ AllFinished(cars)
    /\ timestamp' = step * dt
    /\ pc' = "done"
    /\ UNCHANGED <<config_vars, cars, step, event_queue, last_log_time,
                   new_collisions, all_collisions, elim_idx, rolled, near_misses,
                   eliminated_cars, snapshot, sensed,
                   passes>>

\* RacingSimulation.run: "for car in self.cars" of one step
UpdateFixed ==
    /\ pc = "loop"
    /\ mode = "fixed"
    /\ step < max_steps
    /\ ActiveCars(cars) # {} /\ ~AllFinished(cars)
    /\ LET r == UpdateCarsFixed([cars |-> cars, sensed |-> NoReads(cars)], 1, dt)
       IN  /\ cars' = r.cars
           /\ sensed' = r.sensed
    /\ snapshot' = [i \in DOMAIN cars |-> View(cars[i])]
    /\ timestamp' = step * dt
    /\ pc' = "collide"
    /\ passes' = NoPasses
    /\ UNCHANGED <<config_vars, step, event_queue, last_log_time, new_collisions,
                   all_collisions, elim_idx, rolled, near_misses, eliminated_cars>>

\* run_with_markov: "for car in simulation.cars" of one step
UpdateMarkov ==
    /\ pc = "loop"
    /\ mode = "markov"
    /\ step < max_steps
    /\ ActiveCars(cars) # {} /\ ~AllFinished(cars)
    /\ \E choice \in [DOMAIN cars -> States] :
          /\ \A k \in DOMAIN cars :
                IF step % markov_interval = 0 /\ ~cars[k].eliminated
                THEN choice[k] \in NextStates(cars[k])
                ELSE choice[k] = "eliminated"
          /\ LET r == UpdateCarsMarkov([cars |-> cars, sensed |-> NoReads(cars)], 1, dt,
                                       step % markov_interval = 0, choice)
             IN  /\ cars' = r.cars
                 /\ sensed' = r.sensed
    /\ snapshot' = [i \in DOMAIN cars |-> View(cars[i])]
    /\ timestamp' = step * dt
    /\ pc' = "collide"
    /\ passes' = NoPasses
    /\ UNCHANGED <<config_vars, step, event_queue, last_log_time, new_collisions,
                   all_collisions, elim_idx, rolled, near_misses, eliminated_cars>>

\* "new_collisions = check_collisions(self.cars, self.timestamp)" and
\* "all_collisions.extend(new_collisions)" of both step loops
CheckCollisions ==
    /\ pc = "collide"
    /\ LET r == check_collisions(cars, timestamp)
       IN  /\ cars' = r.cars
           /\ new_collisions' = r.new
           /\ all_collisions' = all_collisions \o r.new
           /\ pc' = IF elimination_enabled /\ r.new # <<>> THEN "eliminate_car1" ELSE "near_miss"
    /\ elim_idx' = 1
    /\ rolled' = <<>>
    /\ passes' = [passes EXCEPT !.collision = @ + 1]
    /\ UNCHANGED <<config_vars, step, timestamp, event_queue, last_log_time,
                   near_misses, eliminated_cars, snapshot, sensed>>

\* _check_eliminations, "for collision in new_collisions": the block
\* "Check car1 for elimination" for the collision at elim_idx
CheckEliminationCar1 ==
    /\ pc = "eliminate_car1"
    /\ \E roll \in 1..10 :
          LET r == check_elimination_of(cars, eliminated_cars,
                                        new_collisions[elim_idx].car_id1, roll, timestamp)
          IN  /\ cars' = r.cars
              /\ eliminated_cars' = r.eliminated_cars
              /\ rolled' = r.rolled
    /\ pc' = "eliminate_car2"
    /\ UNCHANGED <<config_vars, step, timestamp, event_queue, last_log_time,
                   new_collisions, all_collisions, elim_idx, near_misses, snapshot,
                   sensed,
                   passes>>

\* ... and the block "Check car2 for elimination", which ends the iteration
CheckEliminationCar2 ==
    /\ pc = "eliminate_car2"
    /\ \E roll \in 1..10 :
          LET r == check_elimination_of(cars, eliminated_cars,
                                        new_collisions[elim_idx].car_id2, roll, timestamp)
          IN  /\ cars' = r.cars
              /\ eliminated_cars' = r.eliminated_cars
              /\ rolled' = r.rolled
    /\ elim_idx' = elim_idx + 1
    /\ pc' = IF elim_idx < Len(new_collisions) THEN "eliminate_car1" ELSE "near_miss"
    /\ UNCHANGED <<config_vars, step, timestamp, event_queue, last_log_time,
                   new_collisions, all_collisions, near_misses, snapshot, sensed,
                   passes>>

\* The near-miss pass over the active cars, _log_telemetry, and the end of
\* the step
NearMissAndLog ==
    /\ pc = "near_miss"
    /\ near_misses' = near_misses
                      + compute_near_misses(cars, ActiveCars(cars), ttc_threshold)
    /\ cars' = log_telemetry(cars)
    /\ rolled' = <<>>
    /\ step' = step + 1
    /\ pc' = "loop"
    /\ passes' = [passes EXCEPT !.near_miss = @ + 1]
    /\ UNCHANGED <<config_vars, timestamp, event_queue, last_log_time, new_collisions,
                   all_collisions, elim_idx, eliminated_cars, snapshot, sensed>>

----------------------------------------------------------------------------
(* The event run (discrete_event.py) *)

\* DiscreteEventSimulation._check_elimination.  Nothing calls it but
\* _handle_collision.
check_elimination(st, i, roll, ts, enabled) ==
    IF st.cars[i].eliminated THEN st
    ELSE IF ~enabled THEN st
    ELSE IF roll < elimination_chance
    THEN [cars |-> [st.cars EXCEPT ![i] =
                      [@ EXCEPT !.eliminated = TRUE,
                                !.elimination_time = <<ts>>,
                                !.elimination_reason = "collision",
                                !.velocity = 0]],
          eliminated_cars |-> Append(st.eliminated_cars, st.cars[i].car_id),
          rolled |-> Append(st.rolled, [car_id |-> st.cars[i].car_id, roll |-> roll])]
    ELSE [st EXCEPT !.rolled = Append(@, [car_id |-> st.cars[i].car_id, roll |-> roll])]

\* DiscreteEventSimulation._handle_collision.  Nothing calls it but
\* _check_collision_event, which nothing calls: no event of the queue has it
\* as its handler.
handle_collision(cs, elim, i, j, roll1, roll2, ts, enabled) ==
    LET relative_speed == RelativeSpeed(cs[i], cs[j])
        cs1 == [cs EXCEPT
                  ![i] = [@ EXCEPT !.collision_flag = TRUE,
                                   !.collision_count = @ + 1,
                                   !.total_collision_severity = @ + relative_speed],
                  ![j] = [@ EXCEPT !.collision_flag = TRUE,
                                   !.collision_count = @ + 1,
                                   !.total_collision_severity = @ + relative_speed]]
        st0 == [cars |-> cs1, eliminated_cars |-> elim, rolled |-> <<>>]
    IN  check_elimination(check_elimination(st0, i, roll1, ts, enabled),
                          j, roll2, ts, enabled)

\* "if self.current_time - last_log_time >= log_interval: self._log_telemetry()"
LogDue(now, last) == now - last >= log_interval

\* The while loop of DiscreteEventSimulation.run ends: the queue is empty or
\* the time limit is reached
EventLoopEnd ==
    /\ pc = "loop"
    /\ mode = "event"
    /\ event_queue = <<>> \/ ~(timestamp < TimeLimit)
    /\ pc' = "done"
    /\ UNCHANGED <<config_vars, cars, step, timestamp, event_queue, last_log_time,
                   new_collisions, all_collisions, elim_idx, rolled, near_misses,
                   eliminated_cars, snapshot, sensed,
                   passes>>

\* An event is taken from the queue and one of the two break statements ends
\* the loop before its handler runs
EventBreak ==
    /\ pc = "loop"
    /\ mode = "event"
    /\ event_queue # <<>> /\ timestamp < TimeLimit
    /\ ActiveCars(cars) = {} \/ AllFinished(cars)
    /\ LET p == heappop(event_queue)
       IN  /\ event_queue' = p.heap
           /\ timestamp' = p.event.time
    /\ pc' = "done"
    /\ UNCHANGED <<config_vars, cars, step, last_log_time, new_collisions,
                   all_collisions, elim_idx, rolled, near_misses, eliminated_cars,
                   snapshot, sensed,
                   passes>>

\* An 'update' event is taken and handled: _update_all_cars, then the
\* periodic telemetry
EventUpdate ==
    /\ pc = "loop"
    /\ mode = "event"
    /\ event_queue # <<>> /\ timestamp < TimeLimit
    /\ ActiveCars(cars) # {} /\ ~AllFinished(cars)
    /\ LET p == heappop(event_queue)
           r == UpdateCarsEvent([cars |-> cars, sensed |-> NoReads(cars)], 1,
                                ActiveCars(cars), dt)
           log == LogDue(p.event.time, last_log_time)
       IN  /\ p.event.event_type = "update"
           /\ event_queue' = p.heap
           /\ timestamp' = p.event.time
           /\ cars' = IF log THEN log_telemetry(r.cars) ELSE r.cars
           /\ sensed' = r.sensed
           /\ last_log_time' = IF log THEN p.event.time ELSE last_log_time
    /\ snapshot' = [i \in DOMAIN cars |-> View(cars[i])]
    /\ passes' = NoPasses
    /\ UNCHANGED <<config_vars, pc, step, new_collisions, all_collisions, elim_idx,
                   rolled, near_misses, eliminated_cars>>

\* A 'collision_check' event is taken and handled: _check_all_collisions,
\* then the periodic telemetry
EventCollisionCheck ==
    /\ pc = "loop"
    /\ mode = "event"
    /\ event_queue # <<>> /\ timestamp < TimeLimit
    /\ ActiveCars(cars) # {} /\ ~AllFinished(cars)
    /\ LET p == heappop(event_queue)
           r == check_collisions(cars, p.event.time)
           log == LogDue(p.event.time, last_log_time)
       IN  /\ p.event.event_type = "collision_check"
           /\ event_queue' = p.heap
           /\ timestamp' = p.event.time
           /\ cars' = IF log THEN log_telemetry(r.cars) ELSE r.cars
           /\ new_collisions' = r.new
           /\ all_collisions' = all_collisions \o r.new
           /\ last_log_time' = IF log THEN p.event.time ELSE last_log_time
    /\ elim_idx' = 1
    /\ rolled' = <<>>
    /\ passes' = [passes EXCEPT !.collision = @ + 1]
    /\ UNCHANGED <<config_vars, pc, step, near_misses, eliminated_cars, snapshot, sensed>>

----------------------------------------------------------------------------
(* Specification *)

Next ==
    \/ RunStart
    \/ StepsExhausted
    \/ LoopBreak
    \/ UpdateFixed
    \/ UpdateMarkov
    \/ CheckCollisions
    \/ CheckEliminationCar1
    \/ CheckEliminationCar2
    \/ NearMissAndLog
    \/ EventLoopEnd
    \/ EventBreak
    \/ EventUpdate
    \/ EventCollisionCheck

Spec == Init /\ [][Next]_vars

\* The positions of a run
Positions ==
    {"start", "loop", "collide", "eliminate_car1", "eliminate_car2",
     "near_miss", "done"}

\* The event loop is at its head and neither its condition nor one of its
\* break statements ends it: the next step handles an event
EventLoopContinues ==
    /\ mode = "event"
    /\ pc = "loop"
    /\ event_queue # <<>> /\ timestamp < TimeLimit
    /\ ActiveCars(cars) # {} /\ ~AllFinished(cars)

\* What a step of a run does to its position, whatever else it does: but for
\* the handling of an event, it moves the run to another position
Move ==
    /\ pc # "done"
    /\ ~EventLoopContinues
    /\ pc' \in Positions \ {pc}

\* What the handling of an event does to the queue, whatever else it does:
\* the queue is left one event shorter, with events it held before
TakeEvent ==
    /\ EventLoopContinues
    /\ event_queue' \in [1..(Len(event_queue) - 1) ->
                            {event_queue[n] : n \in DOMAIN event_queue}]

\* The run loops are sequential code: a run that has not ended takes its
\* next step
SpecLive == Spec /\ WF_pc(Move) /\ WF_event_queue(TakeEvent)

----------------------------------------------------------------------------
(* Properties *)

\* A step that is one call of check_collisions
CollisionPass == CheckCollisions \/ EventCollisionCheck

\* The unordered pair of cars of a collision event
PairOf(ev) == {ev.car_id1, ev.car_id2}

\* C1: in every cycle of every run loop, what the control computation of a
\* car reads of another car is that car's state at the start of the cycle,
\* never a state integrated earlier in the same cycle.
C1_ControlReadsStartOfCycle ==
    \A i \in DOMAIN sensed :
        \A j \in DOMAIN sensed[i] : sensed[i][j] = snapshot[j]

\* C2: every car's velocity lies between 0 and desired_speed times its
\* strategy multiplier, in every state of every run, across eliminations and
\* strategy transitions.
C2_VelocityWithinBounds ==
    \A i \in DOMAIN cars :
        /\ 0 <= cars[i].velocity
        /\ 10 * cars[i].velocity <= cars[i].desired_speed * cars[i].speed_multiplier

\* A car whose last integration would have exceeded the maximum speed under
\* the commanded acceleration and was cut down to it
C2_Witness ==
    \E i \in DOMAIN cars :
        LET n == Len(cars[i].trajectory)
        IN  /\ n >= 2
            /\ ~cars[i].eliminated
            /\ 10 * (cars[i].trajectory[n - 1].velocity + cars[i].acceleration * dt)
                   > cars[i].desired_speed * cars[i].speed_multiplier
            /\ 10 * cars[i].velocity = cars[i].desired_speed * cars[i].speed_multiplier

\* No two events of a list are about the same unordered pair of cars
NoPairTwice(evs) ==
    \A m \in 1..Len(evs) : \A n \in 1..Len(evs) :
        m # n => PairOf(evs[m]) # PairOf(evs[n])

\* The two cars of an event are both active and within the collision radius
StillColliding(ev) ==
    /\ FindCar(cars, ev.car_id1) # 0
    /\ FindCar(cars, ev.car_id2) # 0
    /\ ~cars[FindCar(cars, ev.car_id1)].eliminated
    /\ ~cars[FindCar(cars, ev.car_id2)].eliminated
    /\ Distance(cars[FindCar(cars, ev.car_id1)].x,
                cars[FindCar(cars, ev.car_id2)].x) < collision_radius

\* C3: the list one call of check_collisions returns never has two events for
\* the same unordered pair, and the next call reports again every pair of the
\* previous call whose cars are still active and still within the radius (as
\* they are when their positions have not changed): the pairs seen are
\* forgotten between calls.
C3_DedupePerCallOnly ==
    /\ []NoPairTwice(new_collisions)
    /\ [][CollisionPass =>
            \A n \in 1..Len(new_collisions) :
                StillColliding(new_collisions[n]) =>
                    \E m \in 1..Len(new_collisions') :
                        PairOf(new_collisions'[m]) = PairOf(new_collisions[n])]_vars

\* Two consecutive calls, no update between them, reported the same pair at
\* the same place
C3_Witness ==
    /\ mode = "event"
    /\ dt = 2
    /\ \E m \in 1..Len(all_collisions) : \E n \in 1..Len(all_collisions) :
          /\ m < n
          /\ PairOf(all_collisions[m]) = PairOf(all_collisions[n])
          /\ all_collisions[n].timestamp = all_collisions[m].timestamp + 1
          /\ all_collisions[n].timestamp % 2 = 1
          /\ all_collisions[n].x = all_collisions[m].x

\* The pairs of list positions of active cars closer than the collision radius
ClosePairs(cs) ==
    {p \in (DOMAIN cs) \X (DOMAIN cs) :
        /\ p[1] < p[2]
        /\ ~cs[p[1]].eliminated
        /\ ~cs[p[2]].eliminated
        /\ Distance(cs[p[1]].x, cs[p[2]].x) < collision_radius}

\* C4: one call of check_collisions returns exactly one event for every
\* unordered pair of active cars closer than the collision radius, with the
\* magnitude of their relative velocity as its severity, and no other event.
C4_OneEventPerClosePair ==
    [][CollisionPass =>
         /\ Len(new_collisions') = Cardinality(ClosePairs(cars))
         /\ \A p \in ClosePairs(cars) :
               \E n \in 1..Len(new_collisions') :
                  /\ new_collisions'[n].car_id1 = cars[p[1]].car_id
                  /\ new_collisions'[n].car_id2 = cars[p[2]].car_id
                  /\ new_collisions'[n].severity
                        = Abs(cars[p[2]].velocity - cars[p[1]].velocity)]_vars

\* Two active cars at identical coordinates and the one event of the pass
\* that has just run
C4_Witness ==
    /\ pc \in {"eliminate_car1", "near_miss"}
    /\ elim_idx = 1
    /\ Len(cars) = 2
    /\ cars[1].x = cars[2].x
    /\ ~cars[1].eliminated /\ ~cars[2].eliminated
    /\ Len(new_collisions) = 1
    /\ PairOf(new_collisions[1]) = {cars[1].car_id, cars[2].car_id}

\* C5: with elimination disabled in the configuration no car's eliminated
\* flag is set in any state of any run.
C5_DisabledNeverEliminates ==
    ~elimination_enabled => \A i \in DOMAIN cars : ~cars[i].eliminated

\* The fields of a car that elimination freezes are the same in c and d
Frozen(c, d) ==
    /\ d.x = c.x
    /\ d.yaw = c.yaw
    /\ d.velocity = c.velocity
    /\ d.lane = c.lane
    /\ d.s_position = c.s_position
    /\ d.lap_count = c.lap_count
    /\ d.lap_times = c.lap_times
    /\ d.trajectory = c.trajectory
    /\ d.collision_count = c.collision_count
    /\ d.total_collision_severity = c.total_collision_severity

\* C6: no step of any run changes the position, heading, velocity, lane,
\* arc-length, lap count, lap times, trajectory, collision count or cumulative
\* severity of a car that is eliminated.
C6_EliminatedCarFrozen ==
    [][\A i \in DOMAIN cars :
          cars[i].eliminated => (i \in DOMAIN cars' /\ Frozen(cars[i], cars'[i]))]_vars

\* A collision pass has just run over an eliminated car and an active car
\* within the collision radius of it, and has reported nothing
C6_Witness ==
    /\ pc = "near_miss"
    /\ new_collisions = <<>>
    /\ \E i \in DOMAIN cars : \E j \in DOMAIN cars :
          /\ cars[i].eliminated
          /\ ~cars[j].eliminated
          /\ Distance(cars[i].x, cars[j].x) < collision_radius

\* C7: in every state every car whose eliminated flag is set has velocity 0.
C7_EliminatedCarStopped ==
    \A i \in DOMAIN cars : cars[i].eliminated => cars[i].velocity = 0

\* C8: the roster holds the same cars in the same order throughout the run,
\* and no step clears an eliminated flag that is set.
C8_EliminationPermanent ==
    [][/\ DOMAIN cars' = DOMAIN cars
       /\ \A i \in DOMAIN cars :
             /\ cars'[i].car_id = cars[i].car_id
             /\ cars[i].eliminated => cars'[i].eliminated]_vars

\* A car was eliminated, the run went on for two cycles at least and another
\* car is still driving
C8_Witness ==
    \E i \in DOMAIN cars : \E j \in DOMAIN cars :
        /\ cars[i].eliminated
        /\ ~cars[j].eliminated
        /\ Len(cars[j].trajectory) > Len(cars[i].trajectory) + 1

\* C9: the number an elimination block draws is one of 1..10, and the car it
\* was drawn for is eliminated after the block if and only if the number is
\* below elimination_chance, that is, with the threshold 6, one of 1..5.
C9_RollDecidesElimination ==
    \A n \in 1..Len(rolled) :
        LET car == cars[FindCar(cars, rolled[n].car_id)]
        IN  /\ rolled[n].roll \in 1..10
            /\ car.eliminated <=> rolled[n].roll < elimination_chance
            /\ car.eliminated <=> rolled[n].roll \in 1..5

\* The highest eliminating number was drawn, and the car is eliminated
C9_Witness ==
    /\ Len(rolled) = 1
    /\ rolled[1].roll = 5
    /\ cars[FindCar(cars, rolled[1].car_id)].eliminated
    /\ cars[FindCar(cars, rolled[1].car_id)].elimination_reason = "collision"

\* C10: with elimination enabled, in the step loops and in the event loop
\* alike, when a cycle is over the elimination blocks have run for every
\* collision the collision pass of the cycle returned.
C10_EveryCollisionRolled ==
    (elimination_enabled /\ pc \in {"loop", "done"})
        => elim_idx > Len(new_collisions)

\* The distance a car has driven: every update moves it by its velocity
\* times the time step
DistanceDriven(car) == SumVelocity(car.trajectory) * dt

\* C11: a car's lap count increments only when the car has covered a full
\* track length since its start or its previous increment, so the laps
\* counted never exceed the full track lengths driven; this includes a car
\* that starts in the last tenth of the track.
C11_LapOnlyAfterFullTraversal ==
    \A i \in DOMAIN cars :
        cars[i].lap_count * total_length <= DistanceDriven(cars[i])

\* C12: for every car with a lap count of 1 or more the number of recorded
\* lap times equals the lap count.
C12_LapTimesMatchLapCount ==
    \A i \in DOMAIN cars :
        cars[i].lap_count >= 1 => Len(cars[i].lap_times) = cars[i].lap_count

\* A car has completed a lap and its time is recorded
C12_Witness ==
    \E i \in DOMAIN cars :
        /\ cars[i].lap_count = 1
        /\ Len(cars[i].lap_times) = 1
        /\ cars[i].lap_times[1] > 0

\* C13: every run terminates: the fixed-step and the Markov run execute at
\* most floor(time_limit / dt) cycles, and the event run handles finitely
\* many events and ends once the queue is empty or the time limit is reached.
C13_RunTerminates ==
    /\ [](mode # "event" => step <= TimeLimit \div dt)
    /\ [][mode = "event" /\ pc = "loop" => Len(event_queue') <= Len(event_queue)]_vars
    /\ <>[](pc = "done")

\* A run that ended because its cycles ran out, and an event run that ended
\* on the time limit with events left in the queue
C13_Witness ==
    /\ pc = "done"
    /\ \/ mode # "event" /\ step = TimeLimit \div dt /\ step > 0
       \/ mode = "event" /\ ~(timestamp < TimeLimit) /\ event_queue # <<>>

\* Some car is not eliminated and some such car has laps left to drive
RaceOpen ==
    /\ \E i \in DOMAIN cars : ~cars[i].eliminated
    /\ \E i \in DOMAIN cars :
          ~cars[i].eliminated /\ cars[i].lap_count < target_laps

\* The step that begins a cycle of the fixed-step or Markov loop, or that
\* handles an event
CycleOrHandler == UpdateFixed \/ UpdateMarkov \/ EventUpdate \/ EventCollisionCheck

\* C14: a cycle, or an event's handler, is executed only while at least one
\* car is active and not all active cars have reached the target laps; at
\* the first loop head where that fails the loop stops, and no control,
\* integration, collision or near-miss step runs after it.
C14_LoopStopsWhenRaceOver ==
    /\ [][CycleOrHandler => RaceOpen]_vars
    /\ [][pc = "loop" /\ ~RaceOpen =>
            /\ pc' = "done"
            /\ UNCHANGED <<cars, new_collisions, all_collisions, near_misses,
                           eliminated_cars>>]_vars
    /\ [][pc # "done"]_vars

\* A run that stopped with active cars, all at the target laps, with cycles
\* or events left
C14_Witness ==
    /\ pc = "done"
    /\ \E i \in DOMAIN cars : ~cars[i].eliminated
    /\ ~RaceOpen
    /\ \/ mode # "event" /\ step < TimeLimit \div dt
       \/ mode = "event" /\ event_queue # <<>> /\ timestamp < TimeLimit

\* The step that runs the update loop over the cars
UpdateCycle == UpdateFixed \/ UpdateMarkov \/ EventUpdate

\* Some update cycle has run: a car has a trajectory point
Updated == \E i \in DOMAIN cars : cars[i].trajectory # <<>>

\* C15: in the fixed-step and in the event run alike, between an update
\* cycle and the next there are exactly one collision-detection pass and
\* exactly one near-miss pass.
C15_OnePassEachPerCycle ==
    [][UpdateCycle /\ Updated =>
          passes = [collision |-> 1, near_miss |-> 1]]_vars

\* Two active cars outside the collision radius whose gap is shrinking and
\* would be closed in less than collision_horizon at their present speeds
ClosingSoon(c1, c2) ==
    LET dx == Delta(c1.x, c2.x)
        rel_v == Sign(dx) * (Vx(c2) - Vx(c1))
    IN  /\ ~c1.eliminated /\ ~c2.eliminated
        /\ Abs(dx) >= collision_radius
        /\ rel_v < 0
        /\ Abs(dx) < collision_horizon * Abs(rel_v)

\* C16: whenever the update of the event run leaves two cars closing on each
\* other with a time to collision under 5 s, a predictive 'collision' event
\* for them is on the queue.
C16_PredictiveCollisionScheduled ==
    [][EventUpdate /\ (\E i \in DOMAIN cars' : \E j \in DOMAIN cars' :
                          i < j /\ ClosingSoon(cars'[i], cars'[j]))
          => \E n \in DOMAIN event_queue' :
                 event_queue'[n].event_type = "collision"]_vars

\* A car that a Markov transition has put into the eliminated state
MarkovEliminated(car) == car.eliminated /\ car.elimination_reason = "markov"

\* C17: the elimination time a Markov transition leaves unset is assigned by
\* a later collision-handling pass: every cycle with a transition step goes
\* on to a collision-handling pass, so when the run has ended no car
\* eliminated by a transition is without its elimination time.
C17_MarkovEliminationTimeAssigned ==
    pc = "done" =>
        \A i \in DOMAIN cars :
            MarkovEliminated(cars[i]) => cars[i].elimination_time # <<>>

\* Two gaps, each a fraction num / den, are the same number
SameGap(g1, g2) == g1.num * g2.den = g2.num * g1.den

\* C18: whatever transitions a car has gone through, while it is not
\* eliminated its speed multiplier and its minimum gap are those of its
\* current strategy: 1.2 and 0.8 times the base gap for aggressive, 1.0 and
\* the base gap for balanced, 0.9 and 1.2 times the base gap for cautious.
C18_ParametersMatchStrategy ==
    \A i \in DOMAIN cars :
        ~cars[i].eliminated =>
            /\ cars[i].speed_multiplier = InitSpeedMultiplier(cars[i].strategy_type)
            /\ SameGap(cars[i].min_gap, InitMinGap(cars[i].strategy_type))

\* C19: the collision flag a collision pass sets is cleared by the telemetry
\* of the same cycle, so in the fixed-step and in the event run alike no car
\* has its flag set when an update cycle starts.
C19_FlagClearAtUpdate ==
    [][UpdateCycle => \A i \in DOMAIN cars : ~cars[i].collision_flag]_vars

\* C20: a configuration with an out-of-range parameter, such as a negative
\* collision radius, is rejected before the first cycle: no run with such a
\* configuration updates a car or completes a cycle.
C20_InvalidConfigRunsNoCycle ==
    collision_radius < 0 => (~Updated /\ step = 0)

\* The lanes of a position query: the lane numbers, and -1 for a query
\* with no lane, which the centreline answers
QueryLanes == -1 .. (num_lanes - 1)

\* C21: the position query is periodic in the arc-length: for every car's
\* arc-length s, every lane and the centreline, the target point at s is
\* the target point at s shifted by whole track lengths.
C21_TargetPointPeriodic ==
    \A i \in DOMAIN cars : \A lane \in QueryLanes : \A n \in 1..MaxTurns :
        /\ get_target_point(cars[i].s_position + n * total_length,
                            lookahead_distance, lane)
             = get_target_point(cars[i].s_position, lookahead_distance, lane)
        /\ get_target_point(cars[i].s_position - n * total_length,
                            lookahead_distance, lane)
             = get_target_point(cars[i].s_position, lookahead_distance, lane)

\* A car that has moved and whose target point lies beyond the end of the
\* track's arc-length range, so that the query wraps
C21_Witness ==
    \E i \in DOMAIN cars :
        /\ cars[i].trajectory # <<>>
        /\ cars[i].s_position + lookahead_distance >= total_length
        /\ get_target_point(cars[i].s_position, lookahead_distance, 0)
             < lookahead_distance

\* The velocities of a trajectory never fall from one point to the next
NonDecreasing(trajectory) ==
    \A n \in 1..(Len(trajectory) - 1) :
        trajectory[n].velocity <= trajectory[n + 1].velocity

\* C22: a car alone on the track, started from rest and stepped with ticks
\* of 0.1 s, has a velocity that never falls from tick to tick and never
\* exceeds its desired speed, whatever its strategy.
C22_LoneCarSpeed ==
    (Len(cars) = 1 /\ mode = "fixed" /\ dt = 1) =>
        /\ NonDecreasing(cars[1].trajectory)
        /\ cars[1].velocity <= cars[1].desired_speed

\* C23: events with equal times are handled in the order of their
\* insertion.  The run inserts every 'update' event before the first
\* 'collision_check' event, so when a 'collision_check' event is handled no
\* 'update' event of the same time is still waiting on the queue.
C23_TiesInInsertionOrder ==
    [][EventCollisionCheck =>
          \A n \in DOMAIN event_queue' :
              ~(/\ event_queue'[n].event_type = "update"
                /\ event_queue'[n].time = timestamp')]_vars

\* The sum the adjusted weights are divided by
TotalWeight(w) == w.aggressive + w.balanced + w.cautious + w.eliminated

\* "collision_rate > 0.5", the rate being collisions per lap, per 1 before
\* the first lap
HighCollisionRate(car) ==
    2 * car.collision_count > (IF car.lap_count > 1 THEN car.lap_count ELSE 1)

\* "collision_rate < 0.1 and avg_speed > car.desired_speed * 0.9"
LowRateAndFast(car) ==
    /\ 10 * car.collision_count < (IF car.lap_count > 1 THEN car.lap_count ELSE 1)
    /\ car.trajectory # <<>>
    /\ 10 * SumVelocity(car.trajectory)
          > 9 * car.desired_speed * Len(car.trajectory)

\* The probability w[s] / TotalWeight(w) is not below the base probability
NotLower(w, base, s) == 1000 * w[s] >= base[s] * TotalWeight(w)

\* The probability w[s] / TotalWeight(w) is not above the base probability
NotHigher(w, base, s) == 1000 * w[s] <= base[s] * TotalWeight(w)

\* C24: for every car that is not eliminated, the adjusted and renormalised
\* transition probabilities of its strategy sum to 1 and move as stated
\* against the base row: with a collision rate above 0.5 the probabilities
\* towards cautious and eliminated are not lower and the one towards
\* aggressive is not higher; with a rate below 0.1 and a mean speed above
\* 0.9 of the desired speed the probability towards aggressive is not lower
\* and the one towards eliminated is not higher.
C24_AdjustedRowDirection ==
    \A i \in DOMAIN cars :
        (mode = "markov" /\ ~cars[i].eliminated) =>
            LET w    == transition_weights(cars[i])
                base == base_transition_matrix(cars[i].strategy_type)
            IN  /\ TotalWeight(w) > 0
                /\ HighCollisionRate(cars[i]) =>
                      /\ NotLower(w, base, "cautious")
                      /\ NotLower(w, base, "eliminated")
                      /\ NotHigher(w, base, "aggressive")
                /\ (~HighCollisionRate(cars[i]) /\ LowRateAndFast(cars[i])) =>
                      /\ NotLower(w, base, "aggressive")
                      /\ NotHigher(w, base, "eliminated")

\* C25: a lane-change decision, which changes a car's target lane and
\* sets its cooldown timer, is taken only in an update whose timer test
\* finds the timer at 0 or below, and it sets the timer to the cooldown of
\* 2 s; the timer then falls by no more than dt in each update, one update
\* per dt of simulated time, so two decisions of one car are at least 2 s
\* apart.
C25_LaneChangeCooldown ==
    [][\A i \in DOMAIN cars :
          /\ (\/ cars'[i].target_lane # cars[i].target_lane
              \/ cars'[i].lane_change_timer > cars[i].lane_change_timer) =>
                 /\ UpdateCycle
                 /\ cars[i].lane_change_timer <= dt
                 /\ cars'[i].lane_change_timer = lane_change_cooldown
          /\ cars'[i].lane_change_timer >= cars[i].lane_change_timer - dt
          /\ cars'[i].lane_change_timer # cars[i].lane_change_timer => UpdateCycle]_vars

\* A car that has decided on a lane change is on its way to the target
\* lane with its cooldown running
C25_Witness ==
    \E i \in DOMAIN cars :
        /\ cars[i].lane_change_timer > 0
        /\ cars[i].lane_change_timer < lane_change_cooldown
        /\ cars[i].lane # cars[i].target_lane

\* A lane coordinate, in tenths of a lane, is a place on the track: between
\* lane 0 and the last lane the track was built with
OnTrack(lane) == 0 <= lane /\ lane <= (track_num_lanes - 1) * LaneScale

\* C26: for every car, in every state from its creation on and for every
\* configured number of lanes, the lane coordinate and the target lane lie
\* between 0 and num_lanes - 1, and so does every candidate lane a
\* lane-change decision of the car considers once its cooldown is over.
C26_LanesWithinTrack ==
    \A i \in DOMAIN cars :
        /\ OnTrack(cars[i].lane)
        /\ OnTrack(cars[i].target_lane)
        /\ cars[i].lane_change_timer <= 0 =>
              \A n \in DOMAIN LaneCandidates(cars[i].lane) :
                  OnTrack(LaneCandidates(cars[i].lane)[n])

\* C27: in every step a car's lane coordinate changes by at most 0.1 lane
\* and never away from its target lane; every update of a car that is not
\* eliminated shortens the distance to the target lane by 0.1 lane, or to 0
\* when it is 0.1 or less, so that under a fixed target the lane coordinate
\* is on the target after finitely many updates and stays there; no other
\* step changes the lane coordinate.
C27_LaneConvergesAtFixedRate ==
    [][\A i \in DOMAIN cars :
          LET before == Abs(cars'[i].target_lane - cars[i].lane)
              after  == Abs(cars'[i].target_lane - cars'[i].lane)
          IN  /\ Abs(cars'[i].lane - cars[i].lane) <= lane_change_rate
              /\ after <= before
              /\ (UpdateCycle /\ ~cars'[i].eliminated) =>
                    after = (IF before > lane_change_rate
                             THEN before - lane_change_rate ELSE 0)
              /\ (~UpdateCycle \/ cars'[i].eliminated) =>
                    cars'[i].lane = cars[i].lane]_vars

\* The first car, created in lane 0, decided on a lane change, arrived on
\* its target lane and was updated there again until its cooldown ran out
C27_Witness ==
    /\ cars[1].lane # 0
    /\ cars[1].lane = cars[1].target_lane
    /\ cars[1].lane_change_timer <= 0
    /\ ~cars[1].eliminated


\* ---------------------------------------------------------------------
\* C28: the eliminated roster and the eliminated flags agree.  In every
\* reachable state of every run discipline the ids listed in
\* eliminated_cars are exactly the ids of the cars whose eliminated flag is
\* set, and no id is listed twice.
RosterIds == {eliminated_cars[n] : n \in DOMAIN eliminated_cars}

FlaggedIds == {cars[i].car_id : i \in {j \in DOMAIN cars : cars[j].eliminated}}

C28_RosterMatchesFlags ==
    /\ RosterIds = FlaggedIds
    /\ Cardinality(RosterIds) = Len(eliminated_cars)


\* ---------------------------------------------------------------------
\* C29: a car's target lane is always a whole lane number.  Whatever the
\* tick size dt, a new lane-change decision is taken only with the lane
\* coordinate on a whole lane, so the candidate chosen, the lane plus or
\* minus 1 or 2, is a whole lane too.
WholeLane(lane) == lane % LaneScale = 0

C29_TargetLaneIsWhole ==
    \A i \in DOMAIN cars : WholeLane(cars[i].target_lane)


\* ---------------------------------------------------------------------
\* C30: every recorded collision is accounted once to each of its two
\* cars.  In every reachable state of every scheduler the collision counts
\* of the cars add up to twice the number of events in the run's collision
\* list, and their cumulative severities add up to twice the sum of the
\* severities of the recorded events.
RECURSIVE SumCounts(_)
SumCounts(cs) ==
    IF cs = <<>> THEN 0 ELSE Head(cs).collision_count + SumCounts(Tail(cs))

RECURSIVE SumCarSeverity(_)
SumCarSeverity(cs) ==
    IF cs = <<>> THEN 0
    ELSE Head(cs).total_collision_severity + SumCarSeverity(Tail(cs))

RECURSIVE SumEventSeverity(_)
SumEventSeverity(events) ==
    IF events = <<>> THEN 0
    ELSE Head(events).severity + SumEventSeverity(Tail(events))

C30_CollisionsAccountedTwice ==
    /\ SumCounts(cars) = 2 * Len(all_collisions)
    /\ SumCarSeverity(cars) = 2 * SumEventSeverity(all_collisions)

\* two collisions recorded, one of them with a relative speed above 0
C30_Witness ==
    /\ Len(all_collisions) >= 2
    /\ SumEventSeverity(all_collisions) > 0
    /\ \E i \in DOMAIN cars : cars[i].collision_count >= 2

====
